---- MODULE Spec2Model ----
(***************************************************************************)
(* Model of libipsw:                                                       *)
(*   - internal/download/ipsw_me.go : the ipsw.me metadata client          *)
(*     (GetVersion, GetBuildID, GetIPSW),                                  *)
(*   - cmd/ipsw/cmd/download/download_dev.go : the `dev` command (RunE)    *)
(*     with its credential vault password callback.                        *)
(***************************************************************************)
EXTENDS Integers, Sequences, FiniteSets, TLC

VARIABLES
    catalog,      \* remote snapshot: the device catalog, in catalog order
    listOrder,    \* remote snapshot: order of the list served for ipsw/{version}
    gvPc,         \* GetVersion: "idle" | "devices" | "scan" | "done"
    gvBuild,      \* GetVersion: the buildID argument
    gvDevices,    \* GetVersion: the decoded devices list
    gvI,          \* GetVersion: the loop index i (1-based)
    requests,     \* GetVersion: the requests issued so far, oldest first
    outcomes,     \* GetVersion: the outcome of each request, oldest first
    gvRes,        \* GetVersion: the returned (version, err)
    rtPc,         \* round trip: "idle" | "built" | "done"
    rtArgs,       \* round trip: the (version, identifier) given to GetBuildID
    rtList,       \* round trip: the list decoded by GetBuildID
    rtBuild,      \* round trip: what GetBuildID returned (build, err)
    rtFw,         \* round trip: what GetIPSW returned (ipsw, err)
    pc,           \* dev command: where RunE stands
    settings,     \* dev command: the flags read at the start (watch, more, json, output)
    username,     \* dev command: local `username`
    password,     \* dev command: local `password`
    keychain,     \* dev command: local `keychain`, the vault password captured by the callback
    vault,        \* the vault file: (exists, password, data)
    prompts,      \* every prompt shown to the user, oldest first
    cbLog,        \* every invocation of FilePasswordFunc, oldest first
    calls,        \* every call RunE made to the vault and the portal, oldest first
    logs,         \* every log entry written, oldest first
    dlType,       \* dev command: local `dlType` (a string, as its characters)
    getErr,       \* dev command: the error of ring.Get
    result,       \* dev command: "running", or how the run ended
    byProductType,\* xcode: the Devices wrapped in ByProductType (their ProductType strings)
    lessOut,      \* xcode: the last call of Less: the two ProductTypes and the result
    vaultChanged  \* what happened to the vault file after keyring.Open, oldest first

metaVars == <<catalog, listOrder>>
gvVars == <<gvPc, gvBuild, gvDevices, gvI, requests, outcomes, gvRes>>
rtVars == <<rtPc, rtArgs, rtList, rtBuild, rtFw>>
devVars == <<pc, settings, username, password, keychain, vault, prompts, cbLog,
             calls, logs, dlType, getErr, result>>
sortVars == <<byProductType, lessOut>>
envVars == <<vaultChanged>>
nonDevVars == <<metaVars, gvVars, rtVars, sortVars, envVars>>
vars == <<metaVars, gvVars, rtVars, devVars, sortVars, envVars>>

----------------------------------------------------------------------------
(* Bounds of the model *)

\* devices in the catalog GetVersion scans
MaxDevices == 3
\* devices in the catalog behind GetBuildID / GetIPSW
MaxIndexDevices == 2

Versions == {"v1", "v2"}
Builds == {"b1", "b2"}
DeviceNames == <<"iPhone1,1", "iPhone1,2", "iPad1,1", "iPad2,1", "Watch1,1">>
UnknownIdentifier == "AppleTV9,9"

----------------------------------------------------------------------------
(* Sequence helpers *)

Range(s) == {s[k] : k \in 1..Len(s)}

RECURSIVE Reverse(_)
Reverse(s) == IF s = <<>> THEN <<>> ELSE Append(Reverse(Tail(s)), Head(s))

RECURSIVE Concat(_)
Concat(ss) == IF ss = <<>> THEN <<>> ELSE Head(ss) \o Concat(Tail(ss))

RECURSIVE Filter(_, _)
Filter(s, keep) ==
    IF s = <<>> THEN <<>>
    ELSE (IF Head(s) \in keep THEN <<Head(s)>> ELSE <<>>) \o Filter(Tail(s), keep)

IsPrefix(p, s) == Len(p) <= Len(s) /\ \A k \in 1..Len(p) : p[k] = s[k]

----------------------------------------------------------------------------
(* The remote firmware index: a fixed snapshot *)

\* type IPSW (the fields the client reads)
IPSW(identifier, version, buildID) ==
    [Identifier |-> identifier, Version |-> version, BuildID |-> buildID]

ZeroIPSW == IPSW("", "", "")

\* type Device (the fields the client reads)
Device(identifier, firmwares) ==
    [Identifier |-> identifier, Firmwares |-> firmwares]

\* The firmware lists a device may carry: (identifier, buildID) is unique
\* within a device's firmware list.
FirmwareLists(identifier) ==
    {<<>>}
    \cup {<<IPSW(identifier, v, b)>> : v \in Versions, b \in Builds}
    \cup {<<IPSW(identifier, v1, b1), IPSW(identifier, v2, b2)>> :
            <<v1, b1, v2, b2>> \in
                {q \in Versions \X Builds \X Versions \X Builds : q[2] # q[4]}}

\* A catalog: devices with pairwise distinct identifiers, in catalog order.
RECURSIVE CatalogsOfLen(_)
CatalogsOfLen(n) ==
    IF n = 0 THEN {<<>>}
    ELSE {Append(c, Device(DeviceNames[n], f)) :
            c \in CatalogsOfLen(n - 1), f \in FirmwareLists(DeviceNames[n])}

Catalogs == UNION {CatalogsOfLen(n) : n \in 0..MaxDevices}

Identifiers(devices) == [k \in 1..Len(devices) |-> devices[k].Identifier]

\* GET /devices
RemoteDevices == catalog

\* GET /device/{identifier}: the record of that device (404 when unknown)
RemoteHasDevice(identifier) == \E k \in 1..Len(catalog) : catalog[k].Identifier = identifier
RemoteDevice(identifier) ==
    catalog[CHOOSE k \in 1..Len(catalog) : catalog[k].Identifier = identifier]

AllFirmwares == Concat([k \in 1..Len(catalog) |-> catalog[k].Firmwares])

\* GET /ipsw/{version}: every firmware of that version, across devices
RemoteFirmwaresForVersion(version) ==
    LET l == Filter(AllFirmwares, {f \in Range(AllFirmwares) : f.Version = version})
    IN  IF listOrder = "forward" THEN l ELSE Reverse(l)

\* GET /ipsw/{identifier}/{buildid}: that firmware (404 when there is none)
RemoteHasFirmware(identifier, buildID) ==
    \E f \in Range(AllFirmwares) : f.Identifier = identifier /\ f.BuildID = buildID
RemoteFirmware(identifier, buildID) ==
    CHOOSE f \in Range(AllFirmwares) : f.Identifier = identifier /\ f.BuildID = buildID

\* What can happen to one HTTP request: answered 200 with a decodable body,
\* http.Get fails, status is not 200, json.Unmarshal fails.
Outcomes == {"ok", "transport", "status", "decode"}
Failures == Outcomes \ {"ok"}

----------------------------------------------------------------------------
(* The dev command before it runs *)

NoCreds == [valid |-> FALSE, Username |-> "", Password |-> ""]
NoVault == [exists |-> FALSE, password |-> "", data |-> NoCreds]

DevIdle ==
    /\ pc = "idle"
    /\ settings = [watch |-> FALSE, more |-> FALSE, json |-> FALSE, output |-> <<>>]
    /\ username = ""
    /\ password = ""
    /\ keychain = ""
    /\ vault = NoVault
    /\ prompts = <<>>
    /\ cbLog = <<>>
    /\ calls = <<>>
    /\ logs = <<>>
    /\ dlType = <<>>
    /\ getErr = "pending"
    /\ result = "running"

NoLess == [a |-> <<>>, b |-> <<>>, res |-> FALSE, called |-> FALSE]

SortIdle ==
    /\ byProductType = <<>>
    /\ lessOut = NoLess

EnvIdle == vaultChanged = <<>>

----------------------------------------------------------------------------
(* GetVersion (ipsw_me.go) *)

NoResult == [version |-> "", err |-> "pending"]

\* for _, ipsw := range dev.Firmwares { if ipsw.BuildID == buildID { return ipsw.Version } }
HasBuild(firmwares, buildID) == \E k \in 1..Len(firmwares) : firmwares[k].BuildID = buildID
FirstWithBuild(firmwares, buildID) ==
    firmwares[CHOOSE k \in 1..Len(firmwares) :
                /\ firmwares[k].BuildID = buildID
                /\ \A j \in 1..(k - 1) : firmwares[j].BuildID # buildID]

\* `i := len(devices) - 1` (indices are 1-based here)
GVSkipLast(devices) == Len(devices) - 1
GVFirstIndex(devices) == Len(devices)

\* The loop header `for ...; i >= 0; i--`: where the scan stands once index i
\* is the next to visit (1-based here, so i >= 1); falling out of the loop
\* is `return "", fmt.Errorf("build did not a version")`.
GVLoop(i) ==
    IF i >= 1
    THEN /\ gvPc' = "scan"
         /\ gvI' = i
         /\ gvRes' = NoResult
    ELSE /\ gvPc' = "done"
         /\ gvI' = i
         /\ gvRes' = [version |-> "", err |-> "notfound"]

GVReturn(version, err) ==
    /\ gvPc' = "done"
    /\ gvRes' = [version |-> version, err |-> err]
    /\ UNCHANGED gvI

\* `if err != nil { return "", err }` and `if res.StatusCode != http.StatusOK
\* { return "", ... }` inside the loop
GVSkipOnFailure(failure) == GVLoop(gvI - 1)
GVOnFailure(failure) == GVReturn("", failure)

\* A caller invokes GetVersion(buildID).
GVCall ==
    /\ gvPc = "idle"
    /\ \E b \in Builds :
        /\ gvBuild' = b
        /\ gvPc' = "devices"
    /\ UNCHANGED <<gvDevices, gvI, requests, outcomes, gvRes, metaVars, rtVars, devVars, sortVars, envVars>>

\* devices, err := GetAllDevices(), then the loop header.
GVGetAllDevices ==
    /\ gvPc = "devices"
    /\ \E o \in Outcomes :
        /\ requests' = Append(requests, "devices")
        /\ outcomes' = Append(outcomes, o)
        /\ IF o # "ok"
           THEN /\ GVReturn("", "alldevices")
                /\ UNCHANGED gvDevices
           ELSE /\ gvDevices' = RemoteDevices
                /\ GVLoop(GVFirstIndex(RemoteDevices))
    /\ UNCHANGED <<gvBuild, metaVars, rtVars, devVars, sortVars, envVars>>

\* One iteration of the loop: the request for devices[i], the scan of its
\* firmwares, and the loop header for the next index.
GVScanDevice ==
    /\ gvPc = "scan"
    /\ \E o \in Outcomes :
        LET identifier == gvDevices[gvI].Identifier
            answered == IF RemoteHasDevice(identifier) THEN o ELSE "status"
        IN  /\ requests' = Append(requests, identifier)
            /\ outcomes' = Append(outcomes, answered)
            /\ IF answered # "ok"
               THEN GVOnFailure(answered)
               ELSE LET dev == RemoteDevice(identifier)
                    IN  IF HasBuild(dev.Firmwares, gvBuild)
                        THEN GVReturn(FirstWithBuild(dev.Firmwares, gvBuild).Version, "nil")
                        ELSE GVLoop(gvI - 1)
    /\ UNCHANGED <<gvBuild, gvDevices, metaVars, rtVars, devVars, sortVars, envVars>>

GVInit ==
    /\ gvPc = "idle"
    /\ gvBuild = ""
    /\ gvDevices = <<>>
    /\ gvI = 0
    /\ requests = <<>>
    /\ outcomes = <<>>
    /\ gvRes = NoResult

RTIdle ==
    /\ rtPc = "idle"
    /\ rtArgs = [version |-> "", identifier |-> ""]
    /\ rtList = <<>>
    /\ rtBuild = [build |-> "", err |-> "pending"]
    /\ rtFw = [ipsw |-> ZeroIPSW, err |-> "pending"]

InitVersion ==
    /\ catalog \in Catalogs
    /\ listOrder = "forward"
    /\ GVInit
    /\ RTIdle
    /\ SortIdle
    /\ EnvIdle
    /\ DevIdle

NextVersion == GVCall \/ GVGetAllDevices \/ GVScanDevice

SpecVersion == InitVersion /\ [][NextVersion]_vars

----------------------------------------------------------------------------
(* GetBuildID and GetIPSW (ipsw_me.go) *)

\* for _, i := range ipsws { if i.Identifier == identifier { return i.BuildID, nil } }
HasIdentifier(ipsws, identifier) ==
    \E k \in 1..Len(ipsws) : ipsws[k].Identifier = identifier
FirstOfList(ipsws, identifier) == ipsws[1]
FirstWithIdentifier(ipsws, identifier) ==
    ipsws[CHOOSE k \in 1..Len(ipsws) :
            /\ ipsws[k].Identifier = identifier
            /\ \A j \in 1..(k - 1) : ipsws[j].Identifier # identifier]

\* GetBuildID(version, identifier), its one request having outcome o
GetBuildID(version, identifier, o) ==
    IF o # "ok"
    THEN [build |-> "", err |-> o, ipsws |-> <<>>]
    ELSE LET ipsws == RemoteFirmwaresForVersion(version)
         IN  IF HasIdentifier(ipsws, identifier)
             THEN [build |-> FirstWithIdentifier(ipsws, identifier).BuildID,
                   err |-> "nil", ipsws |-> ipsws]
             ELSE [build |-> "", err |-> "notfound", ipsws |-> ipsws]

\* GetIPSW(identifier, buildID), its one request having outcome o
GetIPSW(identifier, buildID, o) ==
    LET answered == IF o = "ok" /\ ~RemoteHasFirmware(identifier, buildID)
                    THEN "status" ELSE o
    IN  IF answered # "ok"
        THEN [ipsw |-> ZeroIPSW, err |-> answered]
        ELSE [ipsw |-> RemoteFirmware(identifier, buildID), err |-> "nil"]

QueryVersions == Versions \cup {"v9"}
QueryIdentifiers == {DeviceNames[k] : k \in 1..MaxIndexDevices} \cup {UnknownIdentifier}

\* A caller invokes GetBuildID(version, identifier).
RTGetBuildID ==
    /\ rtPc = "idle"
    /\ \E v \in QueryVersions, id \in QueryIdentifiers, o \in Outcomes :
        LET r == GetBuildID(v, id, o)
        IN  /\ rtArgs' = [version |-> v, identifier |-> id]
            /\ rtList' = r.ipsws
            /\ rtBuild' = [build |-> r.build, err |-> r.err]
            /\ rtPc' = "built"
    /\ UNCHANGED <<rtFw, metaVars, gvVars, devVars, sortVars, envVars>>

\* The caller passes the build it got to GetIPSW(identifier, build).
RTGetIPSW ==
    /\ rtPc = "built"
    /\ rtBuild.err = "nil"
    /\ \E o \in Outcomes :
        /\ rtFw' = GetIPSW(rtArgs.identifier, rtBuild.build, o)
        /\ rtPc' = "done"
    /\ UNCHANGED <<rtArgs, rtList, rtBuild, metaVars, gvVars, devVars, sortVars, envVars>>

InitBuild ==
    /\ catalog \in UNION {CatalogsOfLen(n) : n \in 0..MaxIndexDevices}
    /\ listOrder \in {"forward", "reverse"}
    /\ GVInit
    /\ RTIdle
    /\ SortIdle
    /\ EnvIdle
    /\ DevIdle

NextBuild == RTGetBuildID \/ RTGetIPSW

SpecBuild == InitBuild /\ [][NextBuild]_vars

----------------------------------------------------------------------------
(* The dev command: devCmd.RunE (download_dev.go) *)

\* Strings the command builds or searches are kept as their characters.
RECURSIVE Contains(_, _)
Contains(str, substr) ==
    IF Len(substr) > Len(str) THEN FALSE
    ELSE IF SubSeq(str, 1, Len(substr)) = substr THEN TRUE
    ELSE Contains(Tail(str), substr)

KindMore == <<"m", "o", "r", "e">>
KindOS == <<"o", "s">>
SubstrMore == <<"M", "o", "r", "e">>
\* Options: []string{"OSes (iOS, macOS, tvOS...)", "More (XCode, KDKs...)"}
OptionOSes ==
    <<"O", "S", "e", "s", " ", "(", "i", "O", "S", ",", " ", "m", "a", "c", "O", "S",
      ",", " ", "t", "v", "O", "S", ".", ".", ".", ")">>
OptionMore ==
    <<"M", "o", "r", "e", " ", "(", "X", "C", "o", "d", "e", ",", " ", "K", "D", "K",
      "s", ".", ".", ".", ")">>
SelectOptions == {OptionOSes, OptionMore}

\* fmt.Sprintf("dev_portal_%s.json", dlType)
JSONFileName(kind) ==
    <<"d", "e", "v", "_", "p", "o", "r", "t", "a", "l", "_">> \o kind
        \o <<".", "j", "s", "o", "n">>
\* filepath.Join(output, name), output not empty
JoinPath(dir, name) == dir \o <<"/">> \o name
OutputDir == <<"o", "u", "t">>

\* What the user may do at a prompt: type a value, fail it, or interrupt it.
Typed(v) == [kind |-> "value", value |-> v]
PromptError == [kind |-> "error", value |-> ""]
Interrupt == [kind |-> "interrupt", value |-> ""]

VaultPasswords == {"hunter2", "letmein"}
PasswordResponses == {Typed(v) : v \in VaultPasswords \cup {""}} \cup {PromptError, Interrupt}
UsernameResponses == {Typed("alice"), Typed(""), PromptError, Interrupt}
SecretResponses == {Typed("s3cret"), Typed(""), PromptError, Interrupt}
SelectResponses == {[kind |-> "value", value |-> o] : o \in SelectOptions}
                       \cup {[kind |-> "error", value |-> <<>>],
                             [kind |-> "interrupt", value |-> <<>>]}

StoredCreds == [valid |-> TRUE, Username |-> "bob", Password |-> "p4ss"]
Garbage == [valid |-> FALSE, Username |-> "", Password |-> ""]

\* FilePasswordFunc: the callback given to keyring.Open. kc is `keychain`
\* when it is called, exists whether the vault file exists then, resp what
\* the user does if asked. Yields the new `keychain`, the prompt shown (if
\* any), and the (value, error) returned; "exit" is os.Exit(0).
FilePasswordFuncAlwaysAsks(kc, exists, resp) ==
    LET msg == IF exists THEN "vault-decrypt" ELSE "vault-encrypt"
    IN  CASE resp.kind = "interrupt" ->
                [keychain |-> kc, prompt |-> <<msg>>, ret |-> "", err |-> "exit"]
          [] resp.kind = "error" ->
                [keychain |-> kc, prompt |-> <<msg>>, ret |-> "", err |-> "PromptError"]
          [] OTHER ->
                [keychain |-> resp.value, prompt |-> <<msg>>, ret |-> resp.value, err |-> "nil"]
\* Whether the vault file existed when keyring.Open returned.
ExistedAtOpen == IF vaultChanged = <<>> THEN vault.exists ELSE vaultChanged[1].before

FilePasswordFuncStatAtOpen(kc, exists, resp) ==
    IF kc = ""
    THEN LET msg == IF ExistedAtOpen THEN "vault-decrypt" ELSE "vault-encrypt"
         IN  CASE resp.kind = "interrupt" ->
                    [keychain |-> kc, prompt |-> <<msg>>, ret |-> "", err |-> "exit"]
               [] resp.kind = "error" ->
                    [keychain |-> kc, prompt |-> <<msg>>, ret |-> "", err |-> "PromptError"]
               [] OTHER ->
                    [keychain |-> resp.value, prompt |-> <<msg>>,
                     ret |-> resp.value, err |-> "nil"]
    ELSE [keychain |-> kc, prompt |-> <<>>, ret |-> kc, err |-> "nil"]
FilePasswordFunc(kc, exists, resp) ==
    IF kc = ""
    THEN LET msg == IF exists THEN "vault-decrypt" ELSE "vault-encrypt"
         IN  CASE resp.kind = "interrupt" ->
                    [keychain |-> kc, prompt |-> <<msg>>, ret |-> "", err |-> "exit"]
               [] resp.kind = "error" ->
                    [keychain |-> kc, prompt |-> <<msg>>, ret |-> "", err |-> "PromptError"]
               [] OTHER ->
                    [keychain |-> resp.value, prompt |-> <<msg>>,
                     ret |-> resp.value, err |-> "nil"]
    ELSE [keychain |-> kc, prompt |-> <<>>, ret |-> kc, err |-> "nil"]

\* The record of one callback invocation.
Invocation(during, kc, exists, cb) ==
    [during |-> during, known |-> kc, exists |-> exists, prompted |-> cb.prompt # <<>>,
     prompt |-> cb.prompt, ret |-> cb.ret, err |-> cb.err, keychain |-> cb.keychain]

\* ring.Get(VaultName) on the file store: a missing file is reported before
\* any password is needed; otherwise the store asks the callback for the
\* password and decrypts the entry with it.
RingGet(v, kc, resp) ==
    IF ~v.exists
    THEN [keychain |-> kc, prompt |-> <<>>, inv |-> <<>>, err |-> "NotFoundError",
          data |-> NoCreds]
    ELSE LET cb == FilePasswordFunc(kc, v.exists, resp)
             err == CASE cb.err # "nil" -> cb.err
                      [] cb.ret # v.password -> "DecryptError"
                      [] OTHER -> "nil"
         IN  [keychain |-> cb.keychain, prompt |-> cb.prompt,
              inv |-> <<Invocation("Get", kc, v.exists, cb)>>, err |-> err,
              data |-> IF err = "nil" THEN v.data ELSE NoCreds]

\* ring.Set(item) on the file store: the store asks the callback for the
\* password and writes the encrypted entry (io: whether the write succeeds).
RingSet(v, kc, creds, resp, io) ==
    LET cb == FilePasswordFunc(kc, v.exists, resp)
        err == IF cb.err # "nil" THEN cb.err ELSE io
    IN  [keychain |-> cb.keychain, prompt |-> cb.prompt,
         inv |-> <<Invocation("Set", kc, v.exists, cb)>>, err |-> err,
         vault |-> IF err = "nil"
                   THEN [exists |-> TRUE, password |-> cb.ret, data |-> creds]
                   ELSE v]

\* One call RunE makes to the vault, the portal or the file system.
Call(op, user, pass, kind, res) ==
    [op |-> op, user |-> user, pass |-> pass, kind |-> kind, res |-> res]

\* `return err` / `return nil` / os.Exit(0): the run ends.
DevReturn(how) ==
    /\ pc' = "done"
    /\ result' = how

DevGoto(label) ==
    /\ pc' = label
    /\ UNCHANGED result

\* The stage after the credentials are in hand: app.Login is next.
DevSkipLogin == DevGoto(IF settings.watch THEN "watch" ELSE "type")
DevProceedToLogin == DevGoto("login")

\* home, err := os.UserHomeDir(); ring, err := keyring.Open(...);
\* app := download.NewDevPortal(...); if len(username) == 0 || len(password) == 0
DevStart ==
    /\ pc = "start"
    /\ UNCHANGED nonDevVars
    /\ \E o \in {"nil", "HomeDirError", "OpenError"} :
        IF o # "nil" THEN DevReturn(o)
        ELSE IF username = "" \/ password = "" THEN DevGoto("get")
        ELSE DevProceedToLogin
    /\ UNCHANGED <<settings, username, password, keychain, vault, prompts, cbLog,
                   calls, logs, dlType, getErr>>

\* `if err != nil { log.Errorf(...)`: ring.Get failed, whatever the error;
\* the raw credentials are asked for next.
DevGetFailedAbortsOnDecrypt(err) ==
    /\ getErr' = err
    /\ logs' = Append(logs, "failed to get credentials from vault")
    /\ IF err = "DecryptError" THEN DevReturn(err)
       ELSE DevGoto(IF username = "" THEN "askUsername" ELSE "askPassword")
DevGetFailed(err) ==
    /\ getErr' = err
    /\ logs' = Append(logs, "failed to get credentials from vault")
    /\ DevGoto(IF username = "" THEN "askUsername" ELSE "askPassword")

\* creds, err := ring.Get(download.VaultName) and both branches up to the
\* next prompt
DevGet ==
    /\ pc = "get"
    /\ UNCHANGED nonDevVars
    /\ \E resp \in PasswordResponses :
        LET r == RingGet(vault, keychain, resp)
        IN  /\ keychain' = r.keychain
            /\ prompts' = prompts \o r.prompt
            /\ cbLog' = cbLog \o r.inv
            /\ calls' = Append(calls, Call("Get", "", "", <<>>, r.err))
            /\ CASE r.err = "exit" ->
                    /\ DevReturn("exit0")
                    /\ logs' = Append(logs, "Exiting...")
                    /\ UNCHANGED <<username, password, getErr>>
                 [] r.err = "nil" /\ r.data.valid ->
                    /\ username' = r.data.Username
                    /\ password' = r.data.Password
                    /\ getErr' = "nil"
                    /\ DevProceedToLogin
                    /\ UNCHANGED logs
                 [] r.err = "nil" /\ ~r.data.valid ->
                    /\ getErr' = "nil"
                    /\ DevReturn("UnmarshalError")
                    /\ UNCHANGED <<username, password, logs>>
                 [] OTHER ->
                    /\ DevGetFailed(r.err)
                    /\ UNCHANGED <<username, password>>
    /\ UNCHANGED <<settings, vault, dlType>>

\* survey.AskOne(&survey.Input{"Please type your username:"}, &username)
DevAskUsername ==
    /\ pc = "askUsername"
    /\ UNCHANGED nonDevVars
    /\ \E resp \in UsernameResponses :
        /\ prompts' = Append(prompts, "username")
        /\ CASE resp.kind = "interrupt" ->
                    /\ DevReturn("exit0")
                    /\ logs' = Append(logs, "Exiting...")
                    /\ UNCHANGED username
             [] resp.kind = "error" ->
                    /\ DevReturn("PromptError")
                    /\ UNCHANGED <<username, logs>>
             [] OTHER ->
                    /\ username' = resp.value
                    /\ DevGoto(IF password = "" THEN "askPassword" ELSE "set")
                    /\ UNCHANGED logs
    /\ UNCHANGED <<settings, password, keychain, vault, cbLog, calls, dlType, getErr>>

\* survey.AskOne(&survey.Password{"Please type your password:"}, &password)
DevAskPassword ==
    /\ pc = "askPassword"
    /\ UNCHANGED nonDevVars
    /\ \E resp \in SecretResponses :
        /\ prompts' = Append(prompts, "password")
        /\ CASE resp.kind = "interrupt" ->
                    /\ DevReturn("exit0")
                    /\ logs' = Append(logs, "Exiting...")
                    /\ UNCHANGED password
             [] resp.kind = "error" ->
                    /\ DevReturn("PromptError")
                    /\ UNCHANGED <<password, logs>>
             [] OTHER ->
                    /\ password' = resp.value
                    /\ DevGoto("set")
                    /\ UNCHANGED logs
    /\ UNCHANGED <<settings, username, keychain, vault, cbLog, calls, dlType, getErr>>

\* What follows ring.Set(...): its return value is dropped.
DevSetAborts(err) ==
    /\ IF err # "nil" THEN DevReturn(err) ELSE DevProceedToLogin
    /\ UNCHANGED logs
DevAfterSet(err) ==
    /\ DevProceedToLogin
    /\ UNCHANGED logs

\* dat, err := json.Marshal(&download.DevCreds{...}); ring.Set(keyring.Item{...})
DevSet ==
    /\ pc = "set"
    /\ UNCHANGED nonDevVars
    /\ \E resp \in PasswordResponses, io \in {"nil", "IOError"} :
        LET creds == [valid |-> TRUE, Username |-> username, Password |-> password]
            r == RingSet(vault, keychain, creds, resp, io)
        IN  /\ keychain' = r.keychain
            /\ prompts' = prompts \o r.prompt
            /\ cbLog' = cbLog \o r.inv
            /\ vault' = r.vault
            /\ calls' = Append(calls, Call("Set", username, password, <<>>, r.err))
            /\ IF r.err = "exit"
               THEN /\ DevReturn("exit0")
                    /\ logs' = Append(logs, "Exiting...")
               ELSE DevAfterSet(r.err)
    /\ UNCHANGED <<settings, username, password, dlType, getErr>>

\* dlType := ""; if more { dlType = "more" } else { the selection prompt is next }
DevChooseType ==
    IF settings.more
    THEN /\ dlType' = KindMore
         /\ DevGoto(IF settings.json THEN "list" ELSE "download")
    ELSE /\ dlType' = <<>>
         /\ DevGoto("type")

\* if len(watchList) > 0 { app.Watch() } comes first after a login
DevAfterLogin ==
    IF settings.watch
    THEN /\ DevGoto("watch")
         /\ UNCHANGED dlType
    ELSE DevChooseType

\* if err := app.Login(username, password); err != nil { return err }
DevLoginIgnored(err) == DevAfterLogin
DevLoginFailed(err) ==
    /\ DevReturn(err)
    /\ UNCHANGED dlType

DevLogin ==
    /\ pc = "login"
    /\ UNCHANGED nonDevVars
    /\ \E o \in {"nil", "AuthError", "TransportError"} :
        /\ calls' = Append(calls, Call("Login", username, password, <<>>, o))
        /\ IF o # "nil" THEN DevLoginFailed(o) ELSE DevAfterLogin
    /\ UNCHANGED <<settings, username, password, keychain, vault, prompts, cbLog,
                   logs, getErr>>

\* if err := app.Watch(); err != nil { return err }
DevWatch ==
    /\ pc = "watch"
    /\ UNCHANGED nonDevVars
    /\ \E o \in {"nil", "WatchError"} :
        /\ calls' = Append(calls, Call("Watch", "", "", <<>>, o))
        /\ IF o # "nil"
           THEN /\ DevReturn(o)
                /\ UNCHANGED dlType
           ELSE DevChooseType
    /\ UNCHANGED <<settings, username, password, keychain, vault, prompts, cbLog,
                   logs, getErr>>

\* if strings.Contains(dlType, "More") { dlType = "more" }
DevKindOf(choice) == IF Contains(choice, SubstrMore) THEN KindMore ELSE choice

\* survey.AskOne(&survey.Select{...}, &dlType) and the mapping of the choice
DevSelectType ==
    /\ pc = "type"
    /\ UNCHANGED nonDevVars
    /\ \E resp \in SelectResponses :
        /\ prompts' = Append(prompts, "type")
        /\ CASE resp.kind = "interrupt" ->
                    /\ DevReturn("exit0")
                    /\ logs' = Append(logs, "Exiting...")
                    /\ UNCHANGED dlType
             [] resp.kind = "error" ->
                    /\ DevReturn("PromptError")
                    /\ UNCHANGED <<dlType, logs>>
             [] OTHER ->
                    /\ dlType' = DevKindOf(resp.value)
                    /\ DevGoto(IF settings.json THEN "list" ELSE "download")
                    /\ UNCHANGED logs
    /\ UNCHANGED <<settings, username, password, keychain, vault, cbLog, calls, getErr>>

\* app.GetDownloadsAsJSON(dlType, prettyJSON), then the file or stdout
DevList ==
    /\ pc = "list"
    /\ UNCHANGED nonDevVars
    /\ \E o \in {"nil", "ListError"}, w \in {"nil", "IOError"} :
        LET listed == Call("GetDownloadsAsJSON", "", "", dlType, o)
            fpath == JoinPath(settings.output, JSONFileName(dlType))
        IN  IF o # "nil"
            THEN /\ calls' = Append(calls, listed)
                 /\ DevReturn(o)
                 /\ UNCHANGED logs
            ELSE IF Len(settings.output) > 0
            THEN /\ calls' = calls \o <<listed, Call("WriteFile", "", "", fpath, w)>>
                 /\ logs' = Append(logs, "Creating file")
                 /\ DevReturn(w)
            ELSE /\ calls' = calls \o <<listed, Call("Println", "", "", <<>>, "nil")>>
                 /\ DevReturn("nil")
                 /\ UNCHANGED logs
    /\ UNCHANGED <<settings, username, password, keychain, vault, prompts, cbLog,
                   dlType, getErr>>

\* if err := app.DownloadPrompt(dlType); err != nil { return err }; return nil
DevDownload ==
    /\ pc = "download"
    /\ UNCHANGED nonDevVars
    /\ \E o \in {"nil", "DownloadError"} :
        /\ calls' = Append(calls, Call("DownloadPrompt", "", "", dlType, o))
        /\ DevReturn(o)
    /\ UNCHANGED <<settings, username, password, keychain, vault, prompts, cbLog,
                   logs, dlType, getErr>>

VaultFiles ==
    {NoVault} \cup {[exists |-> TRUE, password |-> pw, data |-> d] :
                        pw \in VaultPasswords, d \in {StoredCreds, Garbage}}

InitDev ==
    /\ catalog = <<>>
    /\ listOrder = "forward"
    /\ GVInit
    /\ RTIdle
    /\ SortIdle
    /\ EnvIdle
    /\ pc = "start"
    /\ settings \in [watch : BOOLEAN, more : BOOLEAN, json : BOOLEAN,
                     output : {<<>>, OutputDir}]
    /\ username \in {"", "carol"}
    /\ password \in {"", "c4rol"}
    /\ keychain \in {"", "hunter2"}
    /\ vault \in VaultFiles
    /\ prompts = <<>>
    /\ cbLog = <<>>
    /\ calls = <<>>
    /\ logs = <<>>
    /\ dlType = <<>>
    /\ getErr = "pending"
    /\ result = "running"

NextDev ==
    \/ DevStart
    \/ DevGet
    \/ DevAskUsername
    \/ DevAskPassword
    \/ DevSet
    \/ DevLogin
    \/ DevWatch
    \/ DevSelectType
    \/ DevList
    \/ DevDownload

SpecDev == InitDev /\ [][NextDev]_vars

\* vault file changes after keyring.Open that a run is checked against
MaxVaultChanges == 1

\* Something else (another run of the command, the user) creates or removes
\* the vault file while this run stands between keyring.Open and app.Login,
\* the stretch in which the store may call FilePasswordFunc.
EnvVaultFile ==
    /\ pc \in {"get", "askUsername", "askPassword", "set"}
    /\ Len(vaultChanged) < MaxVaultChanges
    /\ \E f \in VaultFiles :
        /\ f.exists # vault.exists
        /\ vault' = f
        /\ vaultChanged' = Append(vaultChanged, [before |-> vault.exists, after |-> f.exists])
    /\ UNCHANGED <<pc, settings, username, password, keychain, prompts, cbLog, calls,
                   logs, dlType, getErr, result, metaVars, gvVars, rtVars, sortVars>>

NextVault == NextDev \/ EnvVaultFile

SpecVault == InitDev /\ [][NextVault]_vars

----------------------------------------------------------------------------
(* ByProductType (pkg/xcode/xcode.go) *)

\* The characters of a ProductType, in byte order (Go compares strings
\* byte by byte).
Bytes ==
    <<",", "0", "1", "2", "3", "4", "5", "6", "7", "8", "9", "A", "B", "C",
      "D", "E", "F", "G", "H", "I", "J", "K", "L", "M", "N", "O", "P", "Q",
      "R", "S", "T", "U", "V", "W", "X", "Y", "Z", "a", "b", "c", "d", "e",
      "f", "g", "h", "i", "j", "k", "l", "m", "n", "o", "p", "q", "r", "s",
      "t", "u", "v", "w", "x", "y", "z">>
ByteOf(c) == CHOOSE k \in 1..Len(Bytes) : Bytes[k] = c
DigitChars == <<"0", "1", "2", "3", "4", "5", "6", "7", "8", "9">>
IsDigit(c) == \E k \in 1..Len(DigitChars) : DigitChars[k] = c
DigitValue(c) == (CHOOSE k \in 1..Len(DigitChars) : DigitChars[k] = c) - 1
IsLetter(c) == c # "," /\ ~IsDigit(c)

\* a < b on Go strings
RECURSIVE StringLess(_, _)
StringLess(a, b) ==
    IF b = <<>> THEN FALSE
    ELSE IF a = <<>> THEN TRUE
    ELSE IF Head(a) # Head(b) THEN ByteOf(Head(a)) < ByteOf(Head(b))
    ELSE StringLess(Tail(a), Tail(b))

\* %d
RECURSIVE Decimal(_)
Decimal(n) ==
    IF n < 10 THEN <<DigitChars[n + 1]>>
    ELSE Append(Decimal(n \div 10), DigitChars[(n % 10) + 1])

\* %02d, of a number that is not negative
Unpadded(n) == Decimal(n)
ZeroPad2(n) == IF n < 10 THEN <<"0">> \o Decimal(n) ELSE Decimal(n)

RECURSIVE LeadingLetters(_)
LeadingLetters(str) ==
    IF str = <<>> \/ ~IsLetter(Head(str)) THEN <<>>
    ELSE <<Head(str)>> \o LeadingLetters(Tail(str))

RECURSIVE LeadingNumber(_, _)
LeadingNumber(str, acc) ==
    IF str = <<>> \/ ~IsDigit(Head(str)) THEN acc
    ELSE LeadingNumber(Tail(str), 10 * acc + DigitValue(Head(str)))

RECURSIVE AfterComma(_)
AfterComma(str) ==
    IF str = <<>> THEN <<>>
    ELSE IF Head(str) = "," THEN Tail(str)
    ELSE AfterComma(Tail(str))

\* utils.DeconstructDevice: "iPhone10,1" is family "iPhone", major 10, minor 1
DeconstructDevice(productType) ==
    LET family == LeadingLetters(productType)
        rest == SubSeq(productType, Len(family) + 1, Len(productType))
    IN  [Family |-> family,
         Major |-> LeadingNumber(rest, 0),
         Minor |-> LeadingNumber(AfterComma(rest), 0)]

\* fmt.Sprintf("%s%02d%02d", dev.Family, dev.Major, dev.Minor)
SortKeyUnpadded(dev) == dev.Family \o Unpadded(dev.Major) \o Unpadded(dev.Minor)
SortKey(dev) == dev.Family \o ZeroPad2(dev.Major) \o ZeroPad2(dev.Minor)

\* func (s ByProductType) Less(i, j int) bool
Less(d, i, j) ==
    LET devI == DeconstructDevice(d[i])
        devJ == DeconstructDevice(d[j])
    IN  StringLess(SortKey(devI), SortKey(devJ))

\* func (d Devices) Len() int
DevicesLen(d) == Len(d)

\* func (d Devices) Swap(i, j int)
Swap(d, i, j) == [d EXCEPT ![i] = d[j], ![j] = d[i]]

\* The ProductTypes the lists are made of.
ProductType(family, major, minor) == family \o Decimal(major) \o <<",">> \o Decimal(minor)
Families ==
    {<<"i", "P", "a", "d">>, <<"i", "M", "a", "c">>,
     <<"i", "M", "a", "c", "P", "r", "o">>, <<"W", "a", "t", "c", "h">>}
Numbers == {0, 9, 10, 99, 100}
ProductTypes == {ProductType(f, ma, mi) : f \in Families, ma \in Numbers, mi \in Numbers}
IPhone10_1 == ProductType(<<"i", "P", "h", "o", "n", "e">>, 10, 1)
IPhone9_2 == ProductType(<<"i", "P", "h", "o", "n", "e">>, 9, 2)
IPad7_1 == ProductType(<<"i", "P", "a", "d">>, 7, 1)
ListedTypes ==
    {IPhone10_1, IPhone9_2, IPad7_1, ProductType(<<"i", "P", "h", "o", "n", "e">>, 9, 10)}

\* A caller (sort.Sort) compares two elements.
SortLess ==
    /\ \E i, j \in 1..DevicesLen(byProductType) :
        lessOut' = [a |-> byProductType[i], b |-> byProductType[j],
                    res |-> Less(byProductType, i, j), called |-> TRUE]
    /\ UNCHANGED <<byProductType, metaVars, gvVars, rtVars, devVars, envVars>>

\* A caller (sort.Sort) exchanges two neighbours that Less reports out of order.
SortSwap ==
    /\ \E i \in 1..(DevicesLen(byProductType) - 1) :
        /\ Less(byProductType, i + 1, i)
        /\ byProductType' = Swap(byProductType, i, i + 1)
        /\ lessOut' = [a |-> byProductType[i + 1], b |-> byProductType[i],
                       res |-> TRUE, called |-> TRUE]
    /\ UNCHANGED <<metaVars, gvVars, rtVars, devVars, envVars>>

InitSort ==
    /\ catalog = <<>>
    /\ listOrder = "forward"
    /\ GVInit
    /\ RTIdle
    /\ DevIdle
    /\ byProductType \in {<<a, b>> : a, b \in ProductTypes}
                            \cup [1..3 -> ListedTypes]
    /\ lessOut = NoLess
    /\ EnvIdle

NextSort == SortLess \/ SortSwap

SpecSort == InitSort /\ [][NextSort]_vars

----------------------------------------------------------------------------
(* Claims about the metadata client *)

DeviceRequests == IF requests = <<>> THEN <<>> ELSE Tail(requests)
AllAnswered == \A k \in 1..Len(outcomes) : outcomes[k] = "ok"
DevicesWithBuild(buildID) ==
    {k \in 1..Len(catalog) : HasBuild(catalog[k].Firmwares, buildID)}
LastDeviceWithBuild(buildID) ==
    CHOOSE k \in DevicesWithBuild(buildID) : \A j \in DevicesWithBuild(buildID) : j <= k

\* C1: GetVersion requests the devices one at a time in strictly reverse
\* catalog order (after the one devices request), and the version it returns
\* is that of the first firmware with the buildID in the first device, in
\* that order, that has one: the device latest in forward catalog order.
C1_ReverseScanFirstMatch ==
    /\ requests # <<>> => requests[1] = "devices"
    /\ IsPrefix(DeviceRequests, Reverse(Identifiers(catalog)))
    /\ (gvPc = "done" /\ gvRes.err = "nil") =>
        /\ DevicesWithBuild(gvBuild) # {}
        /\ LET k == LastDeviceWithBuild(gvBuild)
           IN  /\ gvRes.version = FirstWithBuild(catalog[k].Firmwares, gvBuild).Version
               /\ DeviceRequests[Len(DeviceRequests)] = catalog[k].Identifier
               /\ Len(DeviceRequests) = Len(catalog) - k + 1

\* C1 witness: two devices carry the buildID with different versions, the
\* later of them was reached on the second device request or after, and
\* GetVersion returned the version of the later of the two.
C1_Witness ==
    /\ gvPc = "done"
    /\ gvRes.err = "nil"
    /\ Len(DeviceRequests) >= 2
    /\ \E j \in DevicesWithBuild(gvBuild) :
        LET k == LastDeviceWithBuild(gvBuild)
        IN  /\ j < k
            /\ FirstWithBuild(catalog[j].Firmwares, gvBuild).Version
                 # FirstWithBuild(catalog[k].Firmwares, gvBuild).Version
            /\ gvRes.version = FirstWithBuild(catalog[k].Firmwares, gvBuild).Version

\* C2: GetVersion returns not-found only after every device of the catalog
\* was requested and answered and none has the buildID; with the buildID
\* present and every request answered it never returns not-found; a failed
\* request is the last request (no retry, no further request) and its
\* failure is what GetVersion returns.
C2_NotFoundOnlyAfterFullScan ==
    /\ gvRes.err = "notfound" =>
        /\ gvPc = "done"
        /\ AllAnswered
        /\ DeviceRequests = Reverse(Identifiers(catalog))
        /\ DevicesWithBuild(gvBuild) = {}
    /\ (gvPc = "done" /\ AllAnswered /\ DevicesWithBuild(gvBuild) # {}) =>
        gvRes.err = "nil"
    /\ \A k \in 1..(Len(outcomes) - 1) : outcomes[k] = "ok"
    /\ \A j, k \in 1..Len(requests) : requests[j] = requests[k] => j = k
    /\ ~AllAnswered =>
        /\ gvPc = "done"
        /\ gvRes.version = ""
        /\ gvRes.err = IF Len(outcomes) = 1 THEN "alldevices"
                       ELSE outcomes[Len(outcomes)]

\* C2 witness: not-found returned for a catalog of three devices, all of
\* them requested.
C2_Witness ==
    /\ gvPc = "done"
    /\ gvRes.err = "notfound"
    /\ Len(catalog) >= 3
    /\ Len(DeviceRequests) = Len(catalog)

\* C3: when GetBuildID(v, id) returns build b and GetIPSW(id, b) is answered,
\* the firmware it returns has Version v and Identifier id; and GetBuildID
\* returns not-found exactly when its request was answered and no firmware
\* of the list it decoded has Identifier id.
C3_RoundTrip ==
    /\ (rtPc = "done" /\ rtFw.err = "nil") =>
        /\ rtFw.ipsw.Version = rtArgs.version
        /\ rtFw.ipsw.Identifier = rtArgs.identifier
        /\ rtFw.ipsw.BuildID = rtBuild.build
    /\ rtPc # "idle" =>
        (rtBuild.err = "notfound"
            <=> /\ rtBuild.err \notin Failures
                /\ \A k \in 1..Len(rtList) : rtList[k].Identifier # rtArgs.identifier)

\* C3 witness: the round trip succeeded for a device that is not the first
\* of the list served for the version.
C3_Witness ==
    /\ rtPc = "done"
    /\ rtFw.err = "nil"
    /\ Len(rtList) >= 2
    /\ rtList[1].Identifier # rtArgs.identifier

----------------------------------------------------------------------------
(* Claims about the dev command *)

CallsOf(op) == {k \in 1..Len(calls) : calls[k].op = op}
PortalOps == {"Watch", "GetDownloadsAsJSON", "DownloadPrompt"}
LoginReturnedNil == \E j \in CallsOf("Login") : calls[j].res = "nil"
VaultPromptsShown ==
    {k \in 1..Len(prompts) : prompts[k] \in {"vault-encrypt", "vault-decrypt"}}
RawPromptsShown == {k \in 1..Len(prompts) : prompts[k] \in {"username", "password"}}

\* C4: Watch, GetDownloadsAsJSON and DownloadPrompt are called only after a
\* Login of the same run returned nil; the run stands at a portal operation
\* (or at the choice of the download type that precedes it) only when Login
\* has returned nil, and Login is called at most once.
C4_PortalOpsOnlyAfterLogin ==
    /\ \A k \in 1..Len(calls) :
        calls[k].op \in PortalOps =>
            \E j \in 1..(k - 1) : calls[j].op = "Login" /\ calls[j].res = "nil"
    /\ pc \in {"watch", "type", "list", "download"} => LoginReturnedNil
    /\ "type" \in Range(prompts) => LoginReturnedNil

\* C4 witness: Watch and then DownloadPrompt were called, after Login.
C4_Witness ==
    /\ CallsOf("Watch") # {}
    /\ CallsOf("DownloadPrompt") # {}
    /\ LoginReturnedNil

\* C5: a Login that returns an error is the last call of the run: the run
\* is over with that error, no Watch, no download-type prompt, no
\* GetDownloadsAsJSON, no file write and no DownloadPrompt follows, and
\* Login is not called again.
C5_LoginFailureEndsRun ==
    /\ \A k \in CallsOf("Login") :
        calls[k].res # "nil" =>
            /\ k = Len(calls)
            /\ pc = "done"
            /\ result = calls[k].res
            /\ "type" \notin Range(prompts)
            /\ dlType = <<>>
    /\ Cardinality(CallsOf("Login")) <= 1

\* C5 witness: Login rejected the credentials in a run that had a watch
\* list and asked for a JSON listing.
C5_Witness ==
    /\ \E k \in CallsOf("Login") : calls[k].res = "AuthError"
    /\ settings.watch
    /\ settings.json
    /\ pc = "done"

\* C6 as stated: within one run the user is asked for the vault password at
\* most once.
C6_VaultPromptAtMostOnce == Cardinality(VaultPromptsShown) <= 1

\* C6 amended: the callback prompts exactly when it is called while the known
\* vault password is empty; when it does not prompt it returns the known
\* password; once an invocation has left a non-empty password, no later
\* invocation prompts and each returns that password; the vault prompts are
\* exactly those of the callback, and none is shown before the first vault
\* operation (opening the vault does not prompt).
C6_PromptsOnlyWhilePasswordEmpty ==
    /\ \A k \in 1..Len(cbLog) :
        /\ cbLog[k].prompted <=> cbLog[k].known = ""
        /\ ~cbLog[k].prompted => (cbLog[k].ret = cbLog[k].known /\ cbLog[k].err = "nil")
        /\ \A j \in 1..(k - 1) :
            cbLog[j].keychain # "" =>
                (~cbLog[k].prompted /\ cbLog[k].ret = cbLog[j].keychain)
    /\ Cardinality(VaultPromptsShown)
         = Cardinality({k \in 1..Len(cbLog) : cbLog[k].prompted})
    /\ Len(cbLog) > 0 => keychain = cbLog[Len(cbLog)].keychain
    /\ pc \in {"start", "get"} => (prompts = <<>> /\ cbLog = <<>>)

\* C6 witness: the store called the callback for Get and again for Set; the
\* first invocation prompted and got a password, the second returned it
\* without prompting.
C6_Witness ==
    /\ Len(cbLog) = 2
    /\ cbLog[1].prompted
    /\ cbLog[1].keychain # ""
    /\ cbLog[2].during = "Set"
    /\ ~cbLog[2].prompted
    /\ cbLog[2].ret = cbLog[1].keychain
    /\ Cardinality(VaultPromptsShown) = 1

\* C7 as stated: after Get failed with DecryptError the run does not ask for
\* the raw username or password and writes no vault entry.
C7_DecryptErrorSkipsRawCredentials ==
    getErr = "DecryptError" =>
        /\ RawPromptsShown = {}
        /\ CallsOf("Set") = {}

GetErrors == {"DecryptError", "NotFoundError", "PromptError"}
PastCredentials == pc \in {"login", "watch", "type", "list", "download"} \/ CallsOf("Login") # {}

\* C7 amended: whatever the error of Get (wrong vault password or missing
\* entry alike), the run logs it, goes on to ask for the raw credentials that
\* are not set, and reaches Login only after a Set of the credentials in
\* hand; Get is never called a second time; and Set is called only after
\* Get failed.
C7_AnyGetErrorAsksRawCredentials ==
    /\ getErr \in GetErrors =>
        /\ "failed to get credentials from vault" \in Range(logs)
        /\ pc \in {"askUsername", "askPassword"} \/ RawPromptsShown # {}
        /\ pc = "askUsername" => username = ""
        /\ pc = "askPassword" => password = ""
        /\ PastCredentials => CallsOf("Set") # {}
    /\ Cardinality(CallsOf("Get")) <= 1
    /\ CallsOf("Set") # {} => getErr \in GetErrors

\* C7 witness: Get failed with DecryptError, the raw credentials were asked
\* for and Set wrote them over the entry.
C7_Witness ==
    /\ getErr = "DecryptError"
    /\ RawPromptsShown # {}
    /\ \E k \in CallsOf("Set") : calls[k].res = "nil"
    /\ vault.data.Username = "alice"

\* C8: whenever Set returns, with or without an error, the next call is
\* Login with the username and password that were given to Set, and the run
\* has not ended in between.
C8_SetOutcomeNeverAborts ==
    \A k \in CallsOf("Set") :
        calls[k].res # "exit" =>
            IF k = Len(calls)
            THEN /\ pc = "login"
                 /\ result = "running"
                 /\ username = calls[k].user
                 /\ password = calls[k].pass
            ELSE /\ calls[k + 1].op = "Login"
                 /\ calls[k + 1].user = calls[k].user
                 /\ calls[k + 1].pass = calls[k].pass

\* C8 witness: Set failed to write the entry and Login was then called with
\* the credentials just typed.
C8_Witness ==
    \E k \in CallsOf("Set") :
        /\ calls[k].res = "IOError"
        /\ k < Len(calls)
        /\ calls[k + 1].op = "Login"
        /\ calls[k + 1].user = "alice"
        /\ calls[k + 1].pass = "s3cret"

\* C9 as stated: a Set that returns an error is followed by a log entry
\* before the run continues.
C9_SetFailureLogged ==
    [][(/\ pc = "set"
        /\ pc' = "login"
        /\ calls'[Len(calls')].op = "Set"
        /\ calls'[Len(calls')].res \in {"IOError", "PromptError"})
            => Len(logs') > Len(logs)]_vars

FileNameOS ==
    <<"o", "u", "t", "/", "d", "e", "v", "_", "p", "o", "r", "t", "a", "l", "_",
      "o", "s", ".", "j", "s", "o", "n">>
FileNameMore ==
    <<"o", "u", "t", "/", "d", "e", "v", "_", "p", "o", "r", "t", "a", "l", "_",
      "m", "o", "r", "e", ".", "j", "s", "o", "n">>

\* C10 as stated: the kind passed to GetDownloadsAsJSON and DownloadPrompt is
\* "os" or "more", and the JSON file written is dev_portal_os.json or
\* dev_portal_more.json in the output directory.
C10_KindIsOsOrMore ==
    \A k \in 1..Len(calls) :
        /\ calls[k].op \in {"GetDownloadsAsJSON", "DownloadPrompt"} =>
            calls[k].kind \in {KindOS, KindMore}
        /\ calls[k].op = "WriteFile" => calls[k].kind \in {FileNameOS, FileNameMore}

----------------------------------------------------------------------------
(* Claims about ByProductType *)

InRange(dev) == dev.Major \in 0..99 /\ dev.Minor \in 0..99
TupleLess(x, y) ==
    \/ StringLess(x.Family, y.Family)
    \/ x.Family = y.Family /\ x.Major < y.Major
    \/ x.Family = y.Family /\ x.Major = y.Major /\ x.Minor < y.Minor
Sorted(d) == \A i, j \in 1..Len(d) : i < j => ~Less(d, j, i)
SameElements(d, e) ==
    /\ Len(d) = Len(e)
    /\ \A x \in Range(d) \cup Range(e) :
        Cardinality({k \in 1..Len(d) : d[k] = x}) = Cardinality({k \in 1..Len(e) : e[k] = x})

\* C11: for two product types whose major and minor are in 0..99, Less
\* holds exactly when the (family, major, minor) of the first is
\* lexicographically smaller than that of the second, family compared as a
\* string and major and minor as numbers; and a list of iPhone10,1,
\* iPhone9,2 and iPad7,1 that Less reports in order is iPad7,1, iPhone9,2,
\* iPhone10,1.
C11_LessIsTupleOrder ==
    /\ lessOut.called =>
        LET x == DeconstructDevice(lessOut.a)
            y == DeconstructDevice(lessOut.b)
        IN  (InRange(x) /\ InRange(y)) => (lessOut.res <=> TupleLess(x, y))
    /\ (/\ Len(byProductType) = Len(<<IPhone10_1, IPhone9_2, IPad7_1>>)
        /\ SameElements(byProductType, <<IPhone10_1, IPhone9_2, IPad7_1>>)
        /\ Sorted(byProductType)) =>
        byProductType = <<IPad7_1, IPhone9_2, IPhone10_1>>

\* C11 witness: Less was called on iPhone9,x and iPhone10,y and said yes,
\* and the list of the three product types, given in another order, has
\* been brought into the order iPad7,1, iPhone9,2, iPhone10,1 by swaps.
C11_Witness ==
    /\ lessOut.called
    /\ lessOut.res
    /\ lessOut.a = IPhone9_2
    /\ lessOut.b = IPhone10_1
    /\ byProductType = <<IPad7_1, IPhone9_2, IPhone10_1>>

----------------------------------------------------------------------------
(* Claims about the vault prompt *)

====
